---- MODULE Spec2Model ----
(***************************************************************************)
(* MarketPulse (src/app.py): the scheduled fetch -> dedupe -> post         *)
(* pipeline.  The dedup ledger (seen_urls, seen_queue, the seen file), the *)
(* news job post_news_slot with collect_news_batch and send_text, the      *)
(* time-window gate within_window, the trading-day gate is_trading_day     *)
(* with its holiday refresh, and the four fixed daily jobs.                *)
(***************************************************************************)
EXTENDS Integers, Sequences, FiniteSets, Bags, TLC

(* ------------------------------ bounds --------------------------------- *)
\* Number of distinct article links the feeds can carry.
NumLinks == 3
\* Capacity of seen_queue.  The source sets deque(maxlen=2000) (app.py:87);
\* the model runs the same deque with a capacity small enough to overflow.
SEEN_MAXLEN == 2
\* Entries the feeds of one fetch round return in total.
MaxEntries == 2
\* Steps of CLOCK_STEP the clock makes from local midnight of the epoch day.
MaxClockSteps == 3
\* Number of distinct article links the feeds carry while all five jobs run
\* over the days.
NumJobLinks == 1
\* the feeds for which feedparser raises at one moment: at most this many
MaxDown == 2
\* the threads of the scheduler's pool that the executions share
MaxThreads == 2
\* the longest text given to summarize, in characters
MaxTextLen == 5
\* Entries one feed of RSS_FEEDS carries.
MaxNewsEntries == 2

(* ------------------------- program constants --------------------------- *)
MAX_NEWS_PER_SLOT == 2
FEED_LIMIT == 12
GROUP_TAKE == 2
PREMARKET_ITEMS == 4
POLL_RETRY_INTERVAL_SEC == 600
POLL_WINDOW_MIN == 120
MIN_SEC == 60
HOUR_SEC == 60 * MIN_SEC
DAY_SEC == 24 * HOUR_SEC
\* "> 24*3600" of is_trading_day
REFRESH_SEC == 24 * 3600
\* "dt.weekday() >= 5": Monday is 0
WEEKEND_FROM == 5

\* The clock counts seconds of local time from midnight of the epoch day,
\* Thursday 14 August 2025; the next day, 15 August, is an exchange holiday.
\* The scheduler's firings are observed every CLOCK_STEP.
Epoch == [y |-> 2025, m |-> 8, d |-> 14, weekday |-> 3]
CLOCK_STEP == 20 * HOUR_SEC

\* FEEDS: the four category groups in dict order, each a list of feed urls
\* (numbered 1..9 in source order).
GROUPS == <<"market", "company", "finance", "global">>
FEEDS == [market |-> <<1, 2, 3>>, company |-> <<4, 5>>,
          finance |-> <<6, 7>>, global |-> <<8, 9>>]

(* ------------------------------ helpers -------------------------------- *)
Min(a, b) == IF a <= b THEN a ELSE b

Range(s) == {s[i] : i \in 1..Len(s)}

\* Python slice s[:n]
Take(s, n) == SubSeq(s, 1, Min(n, Len(s)))

RECURSIVE Flatten(_)
Flatten(ss) == IF ss = <<>> THEN <<>> ELSE Head(ss) \o Flatten(Tail(ss))

RECURSIVE SeqSum(_)
SeqSum(ns) == IF ns = <<>> THEN 0 ELSE Head(ns) + SeqSum(Tail(ns))

BoundedSeq(S, n) == UNION {[1..k -> S] : k \in 0..n}

Count(s, x) == Cardinality({i \in 1..Len(s) : s[i] = x})

Links == 1..NumLinks
NoLink == 0
\* observe = LastObs: the history recorded is last, the job run at this
\* clock reading
LastObs == NumLinks + 1
DayObs == NumLinks + 2

(* -------------------------- time-window gate --------------------------- *)
Digit == [c \in {"0", "1", "2", "3", "4", "5", "6", "7", "8", "9"} |->
            CASE c = "0" -> 0 [] c = "1" -> 1 [] c = "2" -> 2 [] c = "3" -> 3
              [] c = "4" -> 4 [] c = "5" -> 5 [] c = "6" -> 6 [] c = "7" -> 7
              [] c = "8" -> 8 [] c = "9" -> 9]

\* int(s) for a string of decimal digits
RECURSIVE ParseInt(_)
ParseInt(s) == IF s = <<>> THEN 0
               ELSE 10 * ParseInt(SubSeq(s, 1, Len(s) - 1)) + Digit[s[Len(s)]]

DigitChar(n) == <<"0", "1", "2", "3", "4", "5", "6", "7", "8", "9">>[n + 1]

\* n as w decimal digits, zero-padded ("%02d", "%04d")
RECURSIVE Pad(_, _)
Pad(n, w) == IF w = 0 THEN <<>> ELSE Append(Pad(n \div 10, w - 1), DigitChar(n % 10))

\* A configured "HH:MM" string for hour h and minute m; the hour may be
\* written without its leading zero ("8:30").
FormatHHMM(hm, padded) ==
    (IF padded \/ hm[1] >= 10 THEN Pad(hm[1], 2) ELSE <<DigitChar(hm[1])>>)
        \o <<":">> \o Pad(hm[2], 2)

\* h, m = s.split(":"); return int(h), int(m)
parse_hhmm(s) ==
    LET i == CHOOSE k \in 1..Len(s) : s[k] = ":"
    IN  [h |-> ParseInt(SubSeq(s, 1, i - 1)), m |-> ParseInt(SubSeq(s, i + 1, Len(s)))]

\* dt.time(): the time of day of a clock reading, in seconds since midnight
TimeOfDay(dt) == dt % DAY_SEC

within_window_excl(start_str, end_str, dt) ==
    LET s == parse_hhmm(start_str)
        e == parse_hhmm(end_str)
        start == s.h * HOUR_SEC + s.m * MIN_SEC
        end == e.h * HOUR_SEC + e.m * MIN_SEC
        t == TimeOfDay(dt)
    IN  IF start <= end THEN start < t /\ t < end
        ELSE t > start \/ t < end

within_window_or(start_str, end_str, dt) ==
    LET s == parse_hhmm(start_str)
        e == parse_hhmm(end_str)
        start == s.h * HOUR_SEC + s.m * MIN_SEC
        end == e.h * HOUR_SEC + e.m * MIN_SEC
        t == TimeOfDay(dt)
    IN  IF start <= end THEN start <= t \/ t <= end
        ELSE t >= start \/ t <= end

within_window(start_str, end_str, dt) ==
    LET s == parse_hhmm(start_str)
        e == parse_hhmm(end_str)
        start == s.h * HOUR_SEC + s.m * MIN_SEC
        end == e.h * HOUR_SEC + e.m * MIN_SEC
        t == TimeOfDay(dt)
    IN  IF start <= end THEN start <= t /\ t <= end
        ELSE t >= start \/ t <= end

(* ------------------------------- state --------------------------------- *)
VARIABLES
    seen_urls,      \* set of links: the membership test used before posting
    seen_queue,     \* deque(maxlen): the ids save_seen persists, oldest first
    seen_file,      \* /tmp/mpulse_seen.json: [state, arr]
    clock,          \* local wall clock, seconds since local midnight of day 0
    observe,        \* what the history variables record: the sends of this
                    \* link (watched), or (NoLink) the last execution of
                    \* post_news_slot (tick), or (LastObs) the last job (last)
    tick,           \* the last post_news_slot execution of this process:
                    \* [gate, fetches, dup, sends]
    watched,        \* the sends of the link observe names: [first, resent,
                    \* later, everFailed, everResent]
    HOLIDAYS,       \* set of holiday date strings
    HOLIDAYS_LAST_REFRESH,  \* None, or the time of the last holiday fetch
    last,           \* the last job executed at this clock reading: [name,
                    \* trading, refreshed, gets, attempts, fetches, sends]
    win,            \* a call of within_window: [start, end, now, padded, result]
    blips,          \* the posting window the environment configures:
                    \* [start, end], each <<hour, minute>>
    boot,           \* module initialisation: [phase, environ, loaded, jobs,
                    \* started, announced]
    call,           \* a call of a pure function: [fn, in, out]
    sched,          \* the scheduler's threads: the executions in progress
    day             \* the news items sent on a local day: [date, items]

ledger == <<seen_urls, seen_queue, seen_file>>
history == <<observe, tick, watched>>
holidays == <<HOLIDAYS, HOLIDAYS_LAST_REFRESH>>
extra == <<boot, call, sched, day>>
vars == <<seen_urls, seen_queue, seen_file, clock, observe, tick, watched,
          HOLIDAYS, HOLIDAYS_LAST_REFRESH, last, win, blips,
          boot, call, sched, day>>

\* MARKET_BLIPS_START / MARKET_BLIPS_END: "HH:MM" strings, sequences of
\* characters, read from the environment when the module loads.
MARKET_BLIPS_START == FormatHHMM(blips.start, TRUE)
MARKET_BLIPS_END == FormatHHMM(blips.end, TRUE)

\* The default window 08:30..21:30, and one that wraps midnight.
DefaultBlips == [start |-> <<8, 30>>, end |-> <<21, 30>>]
NightBlips == [start |-> <<21, 30>>, end |-> <<7, 30>>]

(* ---------------------- environment and validation --------------------- *)
\* os.environ, for the two required names: a function from the names that
\* are set to their values; a value may be the empty string.
EnvNames == {"BOT_TOKEN", "CHANNEL_ID"}
EnvValues == {"", "x"}
Environs == UNION {[S -> EnvValues] : S \in SUBSET EnvNames}
FullEnviron == [n \in EnvNames |-> "x"]

\* Python's None, and a string value
NoValue == [some |-> FALSE, v |-> ""]
Str(v) == [some |-> TRUE, v |-> v]

\* os.getenv(name)
getenv(environ, name) ==
    IF name \in DOMAIN environ THEN Str(environ[name]) ELSE NoValue

\* env(name, default): "v if (v is not None and v != '') else default"
env(environ, name, default) ==
    LET v == getenv(environ, name)
    IN  IF v.some /\ v.v # "" THEN v ELSE default

BOT_TOKEN == env(boot.environ, "BOT_TOKEN", NoValue)
CHANNEL_ID == env(boot.environ, "CHANNEL_ID", NoValue)

\* "not x" of a value that is None or a string
Falsy(x) == ~x.some \/ x.v = ""

\* The validation: RuntimeError if BOT_TOKEN or CHANNEL_ID is missing.
Validate_token_only(token, channel) ==
    IF Falsy(token) THEN "raise" ELSE "ok"

Validate(token, channel) ==
    IF Falsy(token) THEN "raise"
    ELSE IF Falsy(channel) THEN "raise"
    ELSE "ok"

\* The ids schedule_jobs registers.
JobIds == {"post_news_slot", "pre_market", "ipo_snapshot", "post_market", "fii_dii"}

\* Module initialisation before its first statement, and after its last.
Importing(environ) ==
    [phase |-> "import", environ |-> environ, loaded |-> FALSE, jobs |-> {},
     started |-> FALSE, announced |-> 0]
Booted ==
    [phase |-> "running", environ |-> FullEnviron, loaded |-> TRUE,
     jobs |-> JobIds, started |-> TRUE, announced |-> 1]
Running == boot.phase = "running"

NoCall == [fn |-> "none", in |-> <<>>, out |-> <<>>, done |-> FALSE]
NoDay == [date |-> 0, items |-> 0]

(* ---------------------------- dedup ledger ----------------------------- *)
AbsentFile == [state |-> "absent", arr |-> <<>>]
CorruptFile == [state |-> "corrupt", arr |-> <<>>]
GoodFile(arr) == [state |-> "ok", arr |-> arr]

\* deque.append on a deque with maxlen: a full deque drops its oldest entry
DequeAppend(q, u) ==
    IF Len(q) >= SEEN_MAXLEN THEN Tail(q) \o <<u>> ELSE Append(q, u)

RECURSIVE DequeExtend(_, _)
DequeExtend(q, arr) ==
    IF arr = <<>> THEN q ELSE DequeExtend(DequeAppend(q, Head(arr)), Tail(arr))

\* load_seen: every element of the file goes into seen_urls and seen_queue;
\* a missing or unparsable file leaves both empty.
\* A file that parses to an array whose first elements are the strings arr
\* and whose next element cannot be put in a set (a nested array).
MixedFile(arr) == [state |-> "mixed", arr |-> arr]

\* load_seen on the empty ledger.  open() or json.load() raising leaves the
\* ledger empty; an element that set.add() rejects ends the loop after the
\* elements before it; the except clause catches either, so the call never
\* raises.
load_seen_raises(file) ==
    [urls |-> Range(file.arr), queue |-> DequeExtend(<<>>, file.arr),
     raised |-> file.state # "ok"]

load_seen(file) ==
    IF file.state \in {"ok", "mixed"}
    THEN [urls |-> Range(file.arr), queue |-> DequeExtend(<<>>, file.arr),
          raised |-> FALSE]
    ELSE [urls |-> {}, queue |-> <<>>, raised |-> FALSE]

\* save_seen: json.dump(list(seen_queue)) into the file opened for writing.
\* "open_failed": open() raised, the file is as it was; "write_failed": the
\* file was truncated by open() and the dump did not complete.
SaveOutcomes == {"ok", "open_failed", "write_failed"}

save_seen(file, queue, outcome) ==
    CASE outcome = "ok" -> GoodFile(queue)
      [] outcome = "open_failed" -> file
      [] outcome = "write_failed" -> CorruptFile

\* seen_urls.add(link)
RecordSeen_skip(urls, link) == urls

RecordSeen(urls, link) == urls \cup {link}

(* ------------------------------- feeds --------------------------------- *)
\* A feed entry as feedparser gives it: title and link (either may be empty).
\* The summary only feeds the message text and is left out.
GoodEntry(l) == [title |-> "t", link |-> l]
RawEntries(feedLinks) ==
    {GoodEntry(l) : l \in feedLinks} \cup {[title |-> "t", link |-> NoLink]}

\* What one feedparser.parse(url) gives: entries, or an exception.
FeedOk(es) == [ok |-> TRUE, entries |-> es]
FeedError == [ok |-> FALSE, entries |-> <<>>]

RECURSIVE KeepValid(_)
KeepValid(es) ==
    IF es = <<>> THEN <<>>
    ELSE IF Head(es).title # "" /\ Head(es).link # NoLink
         THEN <<Head(es)>> \o KeepValid(Tail(es))
         ELSE KeepValid(Tail(es))

fetch_feed_entries(feed) ==
    IF feed.ok THEN KeepValid(Take(feed.entries, FEED_LIMIT)) ELSE <<>>

\* FetchAll when the exception of a feed ends the loop over the feeds.
RECURSIVE FetchAll_abort(_)
FetchAll_abort(w) ==
    IF w = <<>> \/ ~Head(w).ok THEN <<>>
    ELSE fetch_feed_entries(Head(w)) \o FetchAll_abort(Tail(w))

\* fetch every feed of a list, in order: candidates.extend(fetch_feed_entries(u))
FetchAll(w) == Flatten([i \in 1..Len(w) |-> fetch_feed_entries(w[i])])

\* The duplicate filter without the test against seen_urls.
RECURSIVE Uniq_unseen(_, _, _)
Uniq_unseen(cands, used, seen) ==
    IF cands = <<>> THEN <<>>
    ELSE LET c == Head(cands) IN
         IF c.link = NoLink \/ c.link \in used
         THEN Uniq_unseen(Tail(cands), used, seen)
         ELSE <<c>> \o Uniq_unseen(Tail(cands), used \cup {c.link}, seen)

\* The loop "for c in candidates: if not link or link in used or link in
\* seen_urls: continue; used.add(link); out.append(c)".
RECURSIVE Uniq(_, _, _)
Uniq(cands, used, seen) ==
    IF cands = <<>> THEN <<>>
    ELSE LET c == Head(cands) IN
         IF c.link = NoLink \/ c.link \in used \/ c.link \in seen
         THEN Uniq(Tail(cands), used, seen)
         ELSE <<c>> \o Uniq(Tail(cands), used \cup {c.link}, seen)

\* One iteration of the group loop of collect_news_batch: results after the
\* group whose feeds returned w.
collect_group(res, w, seen) == res \o Take(Uniq(FetchAll(w), {}, seen), GROUP_TAKE)

\* The top-up pass of collect_news_batch over the pool of all feeds.
collect_pool(res, w, seen, max_items) ==
    LET used == {res[i].link : i \in 1..Len(res)}
        more == Uniq(FetchAll(w), used, seen)
    IN  res \o Take(more, max_items - Len(res))

\* What the n feeds of one fetch round return while the sources carry
\* feedLinks: the k <= MaxEntries entries of the round come one from each of
\* the first feeds of the list (the last feed takes the rest), and for the
\* other feeds feedparser raises.
Webs(n, feedLinks) ==
    {[i \in 1..n |-> IF i > Len(c) THEN FeedError
                     ELSE FeedOk(IF i < n THEN SubSeq(c, i, i)
                                 ELSE SubSeq(c, i, Len(c)))] :
        c \in BoundedSeq(RawEntries(feedLinks), MaxEntries)}

\* The sets of links the sources carry in the two specifications.
JobLinks == 1..NumJobLinks
Universes == {Links, JobLinks}

GroupWebs ==
    [feedLinks \in Universes |->
        [g \in Range(GROUPS) |-> Webs(Len(FEEDS[g]), feedLinks)]]
PoolWebs ==
    [feedLinks \in Universes |->
        Webs(SeqSum([i \in 1..Len(GROUPS) |-> Len(FEEDS[GROUPS[i]])]), feedLinks)]

(* ------------------------------ sending -------------------------------- *)
\* What bot.send_message does: returns, raises RetryAfter, raises another error.
SendOutcomes == {"ok", "rate_limit", "error"}

\* send_text: one bot.send_message call inside try/except Exception; the
\* exception is logged and swallowed.  attempts: transport calls made.
send_text(outcome) == [attempts |-> 1, ok |-> outcome = "ok"]

\* All that collect_news_batch can return from the group at index i on, with
\* res collected so far and n fetches made: per group, over what its feeds
\* may return; "break" once max_items are collected; the top-up pass when
\* all groups gave fewer.  Each outcome: [batch, fetches].
RECURSIVE CollectFrom(_, _, _, _, _, _)
CollectFrom(i, res, n, seen, max_items, feedLinks) ==
    IF i > Len(GROUPS)
    THEN {[batch |-> Take(collect_pool(res, w, seen, max_items), max_items),
           fetches |-> n + Len(w)] : w \in PoolWebs[feedLinks]}
    ELSE LET g == GROUPS[i]
             after == {collect_group(res, w, seen) : w \in GroupWebs[feedLinks][g]}
             m == n + Len(FEEDS[g])
         IN  UNION {IF Len(r) >= max_items
                    THEN {[batch |-> Take(r, max_items), fetches |-> m]}
                    ELSE CollectFrom(i + 1, r, m, seen, max_items, feedLinks) :
                        r \in after}

collect_news_batch(max_items, seen, feedLinks) ==
    CollectFrom(1, <<>>, 0, seen, max_items, feedLinks)

\* collect_news_batch(MAX_NEWS_PER_SLOT) for each set of links the sources
\* carry and each value of seen_urls (the comparison has the table evaluated
\* once)
NewsBatches ==
    LET f == [feedLinks \in Universes |-> [seen \in SUBSET feedLinks |->
                collect_news_batch(MAX_NEWS_PER_SLOT, seen, feedLinks)]]
    IN  IF f = f THEN f ELSE f

\* What post_pre_market's _fetch sees of collect_news_batch(4): the feed
\* fetches made and the number of headlines, for each value of seen_urls.
PreBatches ==
    LET f == [seen \in SUBSET JobLinks |->
                {[fetches |-> c.fetches, headlines |-> Len(c.batch)] :
                    c \in collect_news_batch(PREMARKET_ITEMS, seen, JobLinks)}]
    IN  IF f = f THEN f ELSE f

\* The feed urls in the order of FEEDS.values().
AllFeeds == Flatten([i \in 1..Len(GROUPS) |-> FEEDS[GROUPS[i]]])

\* The sources at one moment: feedparser raises for the feeds in down, and
\* every other feed returns the links it carries (carrier[l] is the feed that
\* carries link l), in the order of the links.
World(down, carrier) ==
    [f \in Range(AllFeeds) |->
        IF f \in down THEN FeedError
        ELSE LET ls == SelectSeq([l \in DOMAIN carrier |-> l],
                                 LAMBDA l : carrier[l] = f)
             IN  FeedOk([i \in 1..Len(ls) |-> GoodEntry(ls[i])])]

\* What the feeds of a list return in a world.
WebOf(world, feeds) == [i \in 1..Len(feeds) |-> world[feeds[i]]]

\* collect_news_batch(max_items) in one world, from the group at index i on:
\* [batch, fetches].
RECURSIVE CollectIn(_, _, _, _, _, _)
CollectIn(world, i, res, n, seen, max_items) ==
    IF i > Len(GROUPS)
    THEN LET w == WebOf(world, AllFeeds)
         IN  [batch |-> Take(collect_pool(res, w, seen, max_items), max_items),
              fetches |-> n + Len(w)]
    ELSE LET g == GROUPS[i]
             r == collect_group(res, WebOf(world, FEEDS[g]), seen)
             m == n + Len(FEEDS[g])
         IN  IF Len(r) >= max_items
             THEN [batch |-> Take(r, max_items), fetches |-> m]
             ELSE CollectIn(world, i + 1, r, m, seen, max_items)

\* The special fetchers.  Each makes one requests.get inside try/except
\* Exception: a timeout or connection error, an HTTP error status
\* (raise_for_status), a body that does not parse, or a page without the rows
\* looked for all end in the empty result: [] for the IPO list, None for
\* the others.
SpecialFetchers ==
    {"fetch_ongoing_ipos_for_today", "fetch_fii_dii_cash",
     "fetch_close_snapshot", "fetch_sgx_nifty"}
SourceReplies == {"timeout", "http_error", "unparsable", "no_rows", "data"}
special_fetch(name, reply) ==
    [raised |-> FALSE,
     value |-> IF reply = "data" THEN "data"
               ELSE IF name = "fetch_ongoing_ipos_for_today" THEN "[]"
               ELSE "None"]

(* ------------------------------ summaries ------------------------------ *)
\* Texts are sequences of characters over a letter, two sentence-ending
\* marks and the space; they carry no markup.
Chars == {"a", ".", "?", " "}
Marks == {".", "?", "!"}
\* the one character U+2026, written here in ASCII
ELLIPSIS == <<"...">>

\* str.rstrip() and str.lstrip()
RECURSIVE RStrip(_)
RStrip(t) ==
    IF t # <<>> /\ t[Len(t)] = " " THEN RStrip(SubSeq(t, 1, Len(t) - 1)) ELSE t
RECURSIVE LStrip(_)
LStrip(t) == IF t # <<>> /\ Head(t) = " " THEN LStrip(Tail(t)) ELSE t

\* re.sub(r"\s+", " ", txt)
RECURSIVE Collapse(_)
Collapse(t) ==
    IF Len(t) < 2 THEN t
    ELSE IF t[1] = " " /\ t[2] = " " THEN Collapse(Tail(t))
    ELSE <<t[1]>> \o Collapse(Tail(t))

\* clean_text of a text without markup: get_text(" ", strip=True) strips
\* it, then runs of whitespace become one space.
clean_text(t) == IF t = <<>> THEN <<>> ELSE Collapse(RStrip(LStrip(t)))

\* cut.rfind(m + " "): the last index (from 0) where the mark m is followed
\* by a space, or -1
RECURSIVE RFindFrom(_, _, _)
RFindFrom(cut, m, p) ==
    IF p < 1 THEN -1
    ELSE IF cut[p] = m /\ cut[p + 1] = " " THEN p - 1
    ELSE RFindFrom(cut, m, p - 1)
rfind(cut, m) == RFindFrom(cut, m, Len(cut) - 1)

Max3(a, b, c) ==
    IF a >= b /\ a >= c THEN a ELSE IF b >= c THEN b ELSE c

\* summarize when any mark ends a sentence, followed by a space or not
RECURSIVE LastMark(_, _)
LastMark(cut, p) ==
    IF p < 1 THEN 0 ELSE IF cut[p] \in Marks THEN p ELSE LastMark(cut, p - 1)
summarize_any_mark(text, limit) ==
    IF text = <<>> THEN <<>>
    ELSE LET t == clean_text(text)
             cut == Take(t, limit)
         IN  IF Len(t) <= limit THEN t
             ELSE IF LastMark(cut, Len(cut)) > 0
             THEN Take(cut, LastMark(cut, Len(cut)))
             ELSE RStrip(cut) \o ELLIPSIS

summarize(text, limit) ==
    IF text = <<>> THEN <<>>
    ELSE LET t == clean_text(text)
             cut == Take(t, limit)
             idx == Max3(rfind(cut, "."), rfind(cut, "?"), rfind(cut, "!"))
         IN  IF Len(t) <= limit THEN t
             ELSE IF idx > 0 THEN Take(cut, idx + 1)
             ELSE RStrip(cut) \o ELLIPSIS

(* ------------------------------- clock --------------------------------- *)
MaxClock == MaxClockSteps * CLOCK_STEP

\* now_local()
now_local == clock

\* datetime.utcnow(): the same clock read in another zone; the program uses
\* only differences of its readings.
utcnow == clock

NoJob == [name |-> "none", trading |-> FALSE, refreshed |-> FALSE, gets |-> 0,
          attempts |-> 0, fetches |-> 0, sends |-> 0, headlines |-> 0]
NoWin == [start |-> <<0, 0>>, end |-> <<0, 0>>, now |-> 0, padded |-> TRUE,
          result |-> "none"]

(* --------------------------- post_news_slot ---------------------------- *)
NoTick == [gate |-> "none", fetches |-> 0, dup |-> FALSE, sends |-> <<>>,
           saved |-> "none"]
NoWatch == [first |-> "none", resent |-> FALSE, later |-> FALSE,
            everFailed |-> FALSE, everResent |-> FALSE]

\* "if it['link'] in seen_urls: continue" of the posting loop
AlreadySeen_never(link, urls) == FALSE

AlreadySeen(link, urls) == link \in urls

\* The posting loop "for it in items": skip a link already seen; else
\* send_text, then record the link and count it as posted.  outs[i] is what
\* bot.send_message does for items[i].  st: [urls, queue, sends, posted].
RECURSIVE PostLoop(_, _, _)
PostLoop(its, outs, st) ==
    IF its = <<>> THEN st
    ELSE LET link == Head(its).link
             s == send_text(Head(outs))
         IN  IF AlreadySeen(link, st.urls)
             THEN PostLoop(Tail(its), Tail(outs), st)
             ELSE PostLoop(Tail(its), Tail(outs),
                     [urls |-> RecordSeen(st.urls, link),
                      queue |-> DequeAppend(st.queue, link),
                      sends |-> Append(st.sends,
                                  [link |-> link, first |-> Head(outs),
                                   attempts |-> s.attempts, ok |-> s.ok]),
                      posted |-> st.posted + 1])

HasDup(its) == \E i, j \in 1..Len(its) : i < j /\ its[i].link = its[j].link

\* The history of the watched link l after an execution that made sends.
Watch(w, l, sends) ==
    LET mine == SelectSeq(sends, LAMBDA x : x.link = l)
        n == Len(mine)
    IN  [first |-> IF w.first = "none" /\ n > 0
                   THEN (IF mine[1].ok THEN "ok" ELSE "failed") ELSE w.first,
         resent |-> w.resent \/ (w.first # "none" /\ n > 0) \/ n > 1,
         later |-> w.later \/ w.first # "none",
         everFailed |-> w.everFailed \/ \E i \in 1..n : ~mine[i].ok,
         everResent |-> w.everResent \/ (w.everFailed /\ n > 0)
                          \/ \E i, j \in 1..n : i < j /\ ~mine[i].ok]

\* post_news_slot past the window gate, with collect_news_batch returning c,
\* bot.send_message doing outs[i] for items[i] and save_seen ending as saved:
\* with nothing collected it returns; else the posting loop, and save_seen
\* if anything was posted.
Posting(c, outs) ==
    PostLoop(c.batch, outs, [urls |-> seen_urls, queue |-> seen_queue,
                             sends |-> <<>>, posted |-> 0])

NewsRun(c, outs, saved) ==
    \E st \in {Posting(c, outs)} :
    /\ seen_urls' = st.urls
    /\ seen_queue' = st.queue
    /\ seen_file' = IF st.posted > 0 THEN save_seen(seen_file, st.queue, saved)
                    ELSE seen_file
    /\ tick' = IF observe = NoLink
               THEN [gate |-> "passed", fetches |-> c.fetches,
                     dup |-> HasDup(c.batch), sends |-> st.sends,
                     saved |-> IF st.posted > 0 THEN saved ELSE "none"]
               ELSE tick
    /\ watched' = IF observe \in Links THEN Watch(watched, observe, st.sends)
                  ELSE watched
    /\ last' = IF observe = LastObs
               THEN [NoJob EXCEPT !.name = "news", !.fetches = c.fetches,
                                  !.sends = Len(st.sends)]
               ELSE last
    /\ day' = IF observe = DayObs
              THEN [date |-> now_local \div DAY_SEC,
                    items |-> (IF day.date = now_local \div DAY_SEC
                               THEN day.items ELSE 0)
                              + Len(SelectSeq(st.sends, LAMBDA x : x.ok))]
              ELSE day
    /\ UNCHANGED <<clock, observe, holidays, win, blips, boot, call, sched>>

\* post_news_slot outside the window: "news: outside window -> skip"
NewsSkip ==
    /\ tick' = IF observe = NoLink THEN [NoTick EXCEPT !.gate = "skipped"] ELSE tick
    /\ last' = IF observe = LastObs THEN [NoJob EXCEPT !.name = "news"] ELSE last
    /\ UNCHANGED <<ledger, clock, observe, watched, holidays, win, blips, extra>>

\* post_news_slot, a whole execution, while the sources carry feedLinks
post_news_slot(feedLinks) ==
    /\ Running
    /\ IF ~within_window(MARKET_BLIPS_START, MARKET_BLIPS_END, now_local)
       THEN NewsSkip
       ELSE \E c \in NewsBatches[feedLinks][seen_urls] :
            \E outs \in [1..Len(c.batch) -> SendOutcomes] :
            \E saved \in SaveOutcomes : NewsRun(c, outs, saved)

(* ----------------------- trading day, holidays ------------------------- *)
\* HOLIDAYS_LAST_REFRESH: None or a clock reading
None == [set |-> FALSE, at |-> 0]
At(t) == [set |-> TRUE, at |-> t]

\* dt.weekday(): Monday is 0
weekday(dt) == (Epoch.weekday + dt \div DAY_SEC) % 7

\* dt.strftime("%Y-%m-%d"), for the days of the epoch month
strftime_ymd(dt) ==
    Pad(Epoch.y, 4) \o <<"-">> \o Pad(Epoch.m, 2) \o <<"-">>
        \o Pad(Epoch.d + dt \div DAY_SEC, 2)

\* re.match(r"\d{4}-\d{2}-\d{2}", s)
IsIsoDate(s) ==
    /\ Len(s) >= 10
    /\ \A i \in {1, 2, 3, 4, 6, 7, 9, 10} : s[i] \in DOMAIN Digit
    /\ s[5] = "-" /\ s[8] = "-"

\* The holiday of the epoch week as the two sources may write it.
IsoHoliday == strftime_ymd(DAY_SEC)
AltHoliday == <<"1", "5", "-", "A", "u", "g", "-", "2", "0", "2", "5">>

\* What one of the two holiday urls answers: requests.get or r.json()
\* raises; a status other than 200; a body of the "holidayDates" shape (every
\* non-empty date is taken) or a list of strings (those matching the date
\* pattern are taken); a "holidayDates" body whose loop raises after its
\* dates were taken.
HolidayResponses ==
    {[kind |-> "raise", shape |-> "none", items |-> {}],
     [kind |-> "non200", shape |-> "none", items |-> {}],
     [kind |-> "ok", shape |-> "holidayDates", items |-> {}],
     [kind |-> "ok", shape |-> "holidayDates", items |-> {IsoHoliday}],
     [kind |-> "ok", shape |-> "holidayDates", items |-> {AltHoliday}],
     [kind |-> "ok", shape |-> "list", items |-> {IsoHoliday}],
     [kind |-> "ok", shape |-> "list", items |-> {AltHoliday}],
     [kind |-> "broken", shape |-> "holidayDates", items |-> {IsoHoliday}]}

\* The dates one response adds to out.
Extract(r) ==
    IF r.kind \in {"raise", "non200"} THEN {}
    ELSE IF r.shape = "holidayDates" THEN r.items
    ELSE {x \in r.items : IsIsoDate(x)}

\* "for u in urls": out accumulates over the urls; the first url parsed
\* without an exception that leaves out non-empty returns it.
RECURSIVE HolidayLoop(_, _, _)
HolidayLoop(i, out, resps) ==
    IF i > Len(resps) THEN [out |-> {}, gets |-> Len(resps)]
    ELSE LET o == out \cup Extract(resps[i])
         IN  IF resps[i].kind = "ok" /\ o # {} THEN [out |-> o, gets |-> i]
             ELSE HolidayLoop(i + 1, o, resps)

\* fetch_nse_holidays(): the set returned, the requests made, and the new
\* HOLIDAYS_LAST_REFRESH (set on both ways out)
fetch_nse_holidays(resps, utc) ==
    LET r == HolidayLoop(1, {}, resps)
    IN  [out |-> r.out, gets |-> r.gets, refresh |-> At(utc)]

\* "HOLIDAYS_LAST_REFRESH is None or (utcnow - it).total_seconds() > 24*3600"
RefreshDue(lastRefresh, utc) ==
    ~lastRefresh.set \/ utc - lastRefresh.at > REFRESH_SEC

is_trading_day_open(dt, hol, lastRefresh, utc, resps) ==
    [result |-> TRUE, HOLIDAYS |-> hol, LAST |-> lastRefresh,
     refreshed |-> FALSE, gets |-> 0]

is_trading_day_weekdays(dt, hol, lastRefresh, utc, resps) ==
    IF weekday(dt) >= WEEKEND_FROM
    THEN [result |-> FALSE, HOLIDAYS |-> hol, LAST |-> lastRefresh,
          refreshed |-> FALSE, gets |-> 0]
    ELSE IF RefreshDue(lastRefresh, utc)
    THEN LET f == fetch_nse_holidays(resps, utc)
         IN  [result |-> TRUE, HOLIDAYS |-> f.out,
              LAST |-> f.refresh, refreshed |-> TRUE, gets |-> f.gets]
    ELSE [result |-> TRUE, HOLIDAYS |-> hol,
          LAST |-> lastRefresh, refreshed |-> FALSE, gets |-> 0]

\* is_trading_day(): [result, HOLIDAYS, LAST (HOLIDAYS_LAST_REFRESH),
\* refreshed, gets]
is_trading_day(dt, hol, lastRefresh, utc, resps) ==
    IF weekday(dt) >= WEEKEND_FROM
    THEN [result |-> FALSE, HOLIDAYS |-> hol, LAST |-> lastRefresh,
          refreshed |-> FALSE, gets |-> 0]
    ELSE IF RefreshDue(lastRefresh, utc)
    THEN LET f == fetch_nse_holidays(resps, utc)
         IN  [result |-> strftime_ymd(dt) \notin f.out, HOLIDAYS |-> f.out,
              LAST |-> f.refresh, refreshed |-> TRUE, gets |-> f.gets]
    ELSE [result |-> strftime_ymd(dt) \notin hol, HOLIDAYS |-> hol,
          LAST |-> lastRefresh, refreshed |-> FALSE, gets |-> 0]

(* --------------------------- polling helper ---------------------------- *)
\* Attempts a polling window allows when the target takes no time.
MaxPolls == (POLL_WINDOW_MIN * MIN_SEC) \div POLL_RETRY_INTERVAL_SEC + 1

\* A target is scripted by the attempt at which it first returns data (0:
\* never); before that it returns nothing or raises, which the loop treats
\* alike.
PollScripts == {0, 1, 2, MaxPolls}
TargetAt(script, k) == IF k = script THEN "data" ELSE "empty"

\* "while now_local() <= deadline": attempt, return on a truthy result, else
\* sleep interval_seconds
RECURSIVE PollLoop(_, _, _, _)
PollLoop(t, deadline, attempt, script) ==
    IF t > deadline THEN [res |-> "none", attempts |-> attempt]
    ELSE IF TargetAt(script, attempt + 1) = "data"
    THEN [res |-> "data", attempts |-> attempt + 1]
    ELSE PollLoop(t + POLL_RETRY_INTERVAL_SEC, deadline, attempt + 1, script)

attempt_with_polling(script, start) ==
    PollLoop(start, start + POLL_WINDOW_MIN * MIN_SEC, 0, script)

(* ----------------------------- fixed posts ----------------------------- *)
\* The answers of the holiday urls a job's is_trading_day() can meet: they
\* are read only when a refresh is due.
GateInputs ==
    IF RefreshDue(HOLIDAYS_LAST_REFRESH, utcnow)
    THEN {<<a, b>> : a, b \in HolidayResponses}
    ELSE {<<>>}

\* The ways "if not is_trading_day()" can go for a job run now.
TradingGate ==
    {is_trading_day(now_local, HOLIDAYS, HOLIDAYS_LAST_REFRESH, utcnow, resps) :
        resps \in GateInputs}

JobRecord(name, g, attempts, fetches, sends) ==
    [name |-> name, trading |-> g.result, refreshed |-> g.refreshed,
     gets |-> g.gets, attempts |-> attempts, fetches |-> fetches, sends |-> sends,
     headlines |-> 0]

\* A fixed job runs to its end: the gate g has refreshed the holidays if it
\* had to, and the job did what r records.
FixedJob(g, r) ==
    /\ Running
    /\ HOLIDAYS' = g.HOLIDAYS
    /\ HOLIDAYS_LAST_REFRESH' = g.LAST
    /\ last' = r
    /\ UNCHANGED <<ledger, clock, history, win, blips, extra>>

\* After the gate, a job whose target makes one request per attempt:
\* attempt_with_polling(target), and one send_text if data came.
DataJob(name, g) ==
    IF ~g.result THEN {JobRecord(name, g, 0, 0, 0)}
    ELSE UNION {LET p == attempt_with_polling(script, now_local)
                IN  IF p.res # "data"
                    THEN {JobRecord(name, g, p.attempts, p.attempts, 0)}
                    ELSE {JobRecord(name, g, p.attempts, p.attempts,
                                    send_text(out).attempts) : out \in SendOutcomes} :
                script \in PollScripts}

post_ipo_snapshot ==
    \E g \in TradingGate : \E r \in DataJob("ipo", g) : FixedJob(g, r)

post_post_market ==
    \E g \in TradingGate : \E r \in DataJob("post_market", g) : FixedJob(g, r)

post_fii_dii ==
    \E g \in TradingGate : \E r \in DataJob("fii_dii", g) : FixedJob(g, r)

\* After the gate, post_pre_market: its target _fetch asks for the SGX quote
\* (one request) and for collect_news_batch(4), and has data when either
\* gave a bullet.  Attempts before the scripted one find neither.
PreMarketJob(g) ==
    IF ~g.result THEN {JobRecord("pre_market", g, 0, 0, 0)}
    ELSE UNION {LET p == attempt_with_polling(script, now_local)
                IN  IF p.res # "data"
                    THEN {JobRecord("pre_market", g, p.attempts,
                                    p.attempts * (1 + none.fetches), 0)}
                    ELSE {[JobRecord("pre_market", g, p.attempts,
                              (p.attempts - 1) * (1 + none.fetches) + 1 + c[1].fetches,
                              send_text(out).attempts)
                             EXCEPT !.headlines = c[1].headlines] :
                            out \in SendOutcomes,
                            c \in {x \in PreBatches[seen_urls] \X BOOLEAN :
                                      x[2] \/ x[1].headlines > 0}} :
                script \in PollScripts,
                none \in {c \in PreBatches[seen_urls] : c.headlines = 0}}

\* post_pre_market recording the headlines it posts, as post_news_slot does.
post_pre_market_recording ==
    \E g \in TradingGate : \E r \in PreMarketJob(g) :
        /\ Running
        /\ HOLIDAYS' = g.HOLIDAYS
        /\ HOLIDAYS_LAST_REFRESH' = g.LAST
        /\ last' = r
        /\ seen_urls' = IF r.headlines > 0 THEN seen_urls \cup JobLinks ELSE seen_urls
        /\ UNCHANGED <<seen_queue, seen_file, clock, history, win, blips, extra>>

post_pre_market ==
    \E g \in TradingGate : \E r \in PreMarketJob(g) : FixedJob(g, r)

\* Time passes to the scheduler's next firing.
AdvanceClock ==
    /\ clock < MaxClock
    /\ clock' = clock + CLOCK_STEP
    /\ last' = NoJob
    /\ UNCHANGED <<ledger, history, holidays, win, blips, extra>>

(* ----------------------------- scheduler ------------------------------- *)
\* BackgroundScheduler(job_defaults={"coalesce": True, "max_instances": 1,
\* "misfire_grace_time": 300}): the scheduler thread submits a job whose
\* trigger fires to the pool unless max_instances executions of that job are
\* running; then it logs the run as skipped and the job keeps its schedule.
max_instances == 1

\* An execution of a job on a pool thread: [job, pc, items, posted].
Exec(j) == [job |-> j, pc |-> "start", items |-> <<>>, posted |-> 0]

\* execs: the executions in progress, a bag (two executions of one job can
\* be at the same point);
\* watch, skip: the history of one job: "skipped" once a trigger of it was
\* skipped, "finished" when the execution then running has ended, "resumed"
\* when a later trigger has started it again;
\* sent: how often each link was delivered as a news item; recorded: the
\* links some execution has recorded.
NoSched ==
    [execs |-> EmptyBag, watch |-> "none", skip |-> "none",
     sent |-> [l \in JobLinks |-> 0], recorded |-> {}]

Executing == BagToSet(sched.execs)
Instances(j) ==
    BagCardinality([e \in {x \in Executing : x.job = j} |-> sched.execs[e]])

\* the executor's test "instances of the job < max_instances"
CanStart_always(n) == TRUE

CanStart(n) == n < max_instances

SchedStep == <<clock, history, last, win, blips, boot, call, day>>

\* A trigger of job j fires.
Trigger(j) ==
    /\ boot.started
    /\ IF ~CanStart(Instances(j))
       THEN sched' = [sched EXCEPT !.skip =
                        IF j = sched.watch /\ @ = "none" THEN "skipped" ELSE @]
       ELSE /\ BagCardinality(sched.execs) < MaxThreads
            /\ sched' = [sched EXCEPT
                   !.execs = @ (+) SetToBag({Exec(j)}),
                   !.skip = IF j = sched.watch /\ @ = "finished"
                            THEN "resumed" ELSE @]
    /\ UNCHANGED <<ledger, holidays, SchedStep>>

\* The execution e goes on as f.
Becomes(e, f) == (sched.execs (-) SetToBag({e})) (+) SetToBag({f})

\* The execution e returns.
Return(e) ==
    [sched EXCEPT !.execs = @ (-) SetToBag({e}),
                  !.skip = IF e.job = sched.watch /\ @ = "skipped"
                           THEN "finished" ELSE @]

\* After an item: the next item, or the end of the posting loop.
NextItem(e) ==
    [e EXCEPT !.items = Tail(@),
              !.pc = IF Tail(e.items) = <<>> THEN "save" ELSE "post"]

\* post_news_slot up to the posting loop: the window gate and
\* collect_news_batch.  feedparser.parse(url) is called without a timeout:
\* when a feed's host never answers, the call does not return.
NewsStart(e) ==
    /\ e.job = "post_news_slot" /\ e.pc = "start"
    /\ IF ~within_window(MARKET_BLIPS_START, MARKET_BLIPS_END, now_local)
       THEN sched' = Return(e)
       ELSE \/ sched' = [sched EXCEPT !.execs = Becomes(e, [e EXCEPT !.pc = "hung"])]
            \/ \E c \in NewsBatches[JobLinks][seen_urls] :
                  sched' = IF c.batch = <<>> THEN Return(e)
                           ELSE [sched EXCEPT !.execs = Becomes(e,
                                   [e EXCEPT !.pc = "post",
                                             !.items = [i \in 1..Len(c.batch) |->
                                                          c.batch[i].link]])]
    /\ UNCHANGED <<ledger, holidays, SchedStep>>

\* "if it['link'] in seen_urls: continue", else send_text for the item
NewsPost(e) ==
    /\ e.job = "post_news_slot" /\ e.pc = "post"
    /\ LET l == Head(e.items)
       IN  IF AlreadySeen(l, seen_urls)
           THEN sched' = [sched EXCEPT !.execs = Becomes(e, NextItem(e))]
           ELSE \E out \in SendOutcomes :
                  sched' = [sched EXCEPT
                      !.execs = Becomes(e, [e EXCEPT !.pc = "record"]),
                      !.sent[l] = IF send_text(out).ok THEN Min(@ + 1, MaxThreads)
                                  ELSE @]
    /\ UNCHANGED <<ledger, holidays, SchedStep>>

\* "seen_urls.add(link); seen_queue.append(link); posted += 1; sleep(1)"
NewsRecord(e) ==
    /\ e.job = "post_news_slot" /\ e.pc = "record"
    /\ LET l == Head(e.items)
       IN  /\ seen_urls' = RecordSeen(seen_urls, l)
           /\ seen_queue' = DequeAppend(seen_queue, l)
           /\ sched' = [sched EXCEPT
                  !.execs = Becomes(e, [NextItem(e) EXCEPT !.posted = @ + 1]),
                  !.recorded = @ \cup {l}]
    /\ UNCHANGED <<seen_file, holidays, SchedStep>>

\* "if posted: save_seen()", and the execution returns
NewsSave(e) ==
    /\ e.job = "post_news_slot" /\ e.pc = "save"
    /\ \E saved \in SaveOutcomes :
         seen_file' = IF e.posted > 0
                      THEN save_seen(seen_file, seen_queue, saved) ELSE seen_file
    /\ sched' = Return(e)
    /\ UNCHANGED <<seen_urls, seen_queue, holidays, SchedStep>>

\* A fixed job: the trading-day gate (which may refresh the holidays), then
\* its fetches and its send; every request it makes has a timeout, except
\* the feed fetches of post_pre_market's collect_news_batch(4), made on
\* trading days only.
FixedRun(e) ==
    /\ e.job \in JobIds \ {"post_news_slot"}
    /\ e.pc = "start"
    /\ \E g \in TradingGate :
         /\ HOLIDAYS' = g.HOLIDAYS
         /\ HOLIDAYS_LAST_REFRESH' = g.LAST
         /\ \/ sched' = Return(e)
            \/ /\ g.result /\ e.job = "pre_market"
               /\ sched' = [sched EXCEPT !.execs = Becomes(e, [e EXCEPT !.pc = "hung"])]
    /\ UNCHANGED <<ledger, SchedStep>>

(* ------------------------- process lifetime ---------------------------- *)
\* Files an earlier process can have left: none, or a saved seen_queue.
InitFiles ==
    {AbsentFile} \cup
    {GoodFile(q) : q \in {x \in BoundedSeq(Links, SEEN_MAXLEN) :
                            \A i, j \in 1..Len(x) : i # j => x[i] # x[j]}}

\* Module initialisation: the ledger is empty, then load_seen() runs.
Startup(file) ==
    /\ seen_urls = load_seen(file).urls
    /\ seen_queue = load_seen(file).queue
    /\ seen_file = file
    /\ tick = NoTick
    /\ watched = NoWatch
    /\ HOLIDAYS = {}
    /\ HOLIDAYS_LAST_REFRESH = None
    /\ last = NoJob
    /\ boot = Booted
    /\ call = NoCall
    /\ sched = NoSched
    /\ day = NoDay

\* The process is stopped and started again: the module is initialised anew
\* and load_seen() reads what the last save left.
Restart ==
    /\ boot' = IF load_seen(seen_file).raised
               THEN [Importing(boot.environ) EXCEPT !.phase = "failed"]
               ELSE boot
    /\ seen_urls' = load_seen(seen_file).urls
    /\ seen_queue' = load_seen(seen_file).queue
    /\ tick' = NoTick
    /\ watched' = [NoWatch EXCEPT !.everFailed = watched.everFailed,
                                  !.everResent = watched.everResent]
    /\ HOLIDAYS' = {}
    /\ HOLIDAYS_LAST_REFRESH' = None
    /\ last' = NoJob
    /\ UNCHANGED <<seen_file, clock, observe, win, blips, call, sched>>
    /\ day' = day

\* The news job: the process runs at midnight or at 20:00 of the epoch day,
\* with either posting window and whatever file an earlier process left.
StartClocks == {0, CLOCK_STEP}

Init ==
    /\ \E file \in InitFiles : Startup(file)
    /\ clock \in StartClocks
    /\ observe \in {NoLink} \cup Links
    /\ win = NoWin
    /\ blips \in {DefaultBlips, NightBlips}

Next ==
    \/ post_news_slot(Links)
    \/ Restart

Spec == Init /\ [][Next]_vars

\* attempt_with_polling statement by statement, for the windows and intervals
\* the environment can configure.  call.out holds the locals of the function.
PollWindows == {0, 1, 2}
PollIntervals == {30, 60, 90}
TargetResults == {"data", "empty", "raise"}
\* Seconds one call of target_fn takes.
TargetTimes == {0, 20}
\* Seconds between the reading of start and the first reading of the loop.
StartLags == {0, 1}

NoPoll == [pc |-> "call", start |-> 0, deadline |-> 0, attempt |-> 0,
           failed |-> 0, res |-> "none"]

InitPoll ==
    /\ seen_urls = load_seen(AbsentFile).urls
    /\ seen_queue = load_seen(AbsentFile).queue
    /\ seen_file = AbsentFile
    /\ tick = NoTick
    /\ watched = NoWatch
    /\ HOLIDAYS = {}
    /\ HOLIDAYS_LAST_REFRESH = None
    /\ last = NoJob
    /\ boot = Booted
    /\ sched = NoSched
    /\ day = NoDay
    /\ clock = 0
    /\ observe = NoLink
    /\ win = NoWin
    /\ blips = DefaultBlips
    /\ call \in {[fn |-> "attempt_with_polling",
                  in |-> [window_minutes |-> w, interval_seconds |-> i],
                  out |-> NoPoll, done |-> FALSE] :
                 w \in PollWindows, i \in PollIntervals}

PollStep == <<ledger, history, holidays, last, win, blips, boot, sched, day>>

Polling(pc) == call.fn = "attempt_with_polling" /\ ~call.done /\ call.out.pc = pc

\* start = now_local(); deadline = start + window; attempt = 0
PollCall ==
    /\ Polling("call")
    /\ call' = [call EXCEPT !.out.pc = "loop", !.out.start = now_local,
                 !.out.deadline = now_local + call.in.window_minutes * MIN_SEC]
    /\ \E lag \in StartLags : clock' = clock + lag
    /\ UNCHANGED PollStep

\* while now_local() <= deadline: attempt += 1; res = target_fn(); ...
PollAttempt ==
    /\ Polling("loop")
    /\ now_local <= call.out.deadline
    /\ \E r \in TargetResults, d \in TargetTimes :
         /\ clock' = clock + d
         /\ call' = IF r = "data"
                    THEN [call EXCEPT !.done = TRUE, !.out.pc = "returned",
                                      !.out.attempt = @ + 1, !.out.res = r]
                    ELSE [call EXCEPT !.out.pc = "sleep", !.out.attempt = @ + 1,
                                      !.out.failed = @ + 1]
    /\ UNCHANGED PollStep

\* time.sleep(interval_seconds)
PollSleep ==
    /\ Polling("sleep")
    /\ clock' = clock + call.in.interval_seconds
    /\ call' = [call EXCEPT !.out.pc = "loop"]
    /\ UNCHANGED PollStep

\* the loop condition fails: return None
PollExpire ==
    /\ Polling("loop")
    /\ now_local > call.out.deadline
    /\ call' = [call EXCEPT !.done = TRUE, !.out.pc = "returned"]
    /\ UNCHANGED <<clock, PollStep>>

NextPoll == PollCall \/ PollAttempt \/ PollSleep \/ PollExpire

SpecPoll == InitPoll /\ [][NextPoll]_vars

SpecPollFair == SpecPoll /\ WF_vars(NextPoll)

(* ------------------------- fetch_news.py ------------------------------- *)
\* RSS_FEEDS, the feed urls numbered in source order.
RSS_FEEDS == <<1, 2, 3, 4, 5, 6, 7>>
\* "d.entries[:15]"
NEWS_ENTRY_LIMIT == 15
\* "get_market_news(max_items=30)" in _collect_headlines
HEADLINE_POOL == 30

\* _strip_html: html.unescape, then the text nodes of the markup, each
\* stripped, joined without a separator.
RawTitles == {"", "a", "<i>a</i>", "b", "<br>"}
strip_html(text) ==
    CASE text = "" -> ""
      [] text = "a" -> "a"
      [] text = "<i>a</i>" -> "a"
      [] text = "b" -> "b"
      [] text = "<br>" -> ""

\* The entries a feed can carry: two links under one headline, one link under
\* two headlines, an entry whose title is markup only, an entry without link.
NewsEntries ==
    {[title |-> "a", link |-> 1], [title |-> "<i>a</i>", link |-> 2],
     [title |-> "b", link |-> 1], [title |-> "<br>", link |-> 2],
     [title |-> "b", link |-> NoLink]}

\* The first two feeds each raise in feedparser.parse or return up to
\* MaxNewsEntries entries; the other feeds return none.
AnsweringFeeds == {1, 2}
NewsAnswers == {FeedError} \cup {FeedOk(es) : es \in BoundedSeq(NewsEntries, MaxNewsEntries)}
NewsWebs ==
    {[i \in 1..Len(RSS_FEEDS) |-> IF i \in AnsweringFeeds THEN w[i] ELSE FeedOk(<<>>)] :
        w \in [AnsweringFeeds -> NewsAnswers]}
\* The values of max_items and limit asked for.
NewsLimits == {0, 1, 2, 3}

\* The items one feed adds: "if title and link: items.append({...})"
RECURSIVE FeedItems(_, _)
FeedItems(es, source) ==
    IF es = <<>> THEN <<>>
    ELSE LET title == strip_html(Head(es).title)
             link == Head(es).link
         IN  IF title # "" /\ link # NoLink
             THEN <<[headline |-> title, link |-> link, source |-> source]>>
                      \o FeedItems(Tail(es), source)
             ELSE FeedItems(Tail(es), source)

\* "for url in RSS_FEEDS: try: ... except Exception: continue"
NewsItems(web) ==
    Flatten([i \in 1..Len(web) |->
                IF web[i].ok
                THEN FeedItems(Take(web[i].entries, NEWS_ENTRY_LIMIT), RSS_FEEDS[i])
                ELSE <<>>])

\* "for it in items: if it["link"] in seen: continue; seen.add(...);
\* out.append(...); if len(out) >= max_items: break"
RECURSIVE UniqueByLink(_, _, _, _)
UniqueByLink(items, seen, out, max_items) ==
    IF items = <<>> THEN out
    ELSE IF Head(items).link \in seen
         THEN UniqueByLink(Tail(items), seen, out, max_items)
         ELSE LET o == Append(out, Head(items))
              IN  IF Len(o) >= max_items THEN o
                  ELSE UniqueByLink(Tail(items), seen \cup {Head(items).link},
                                    o, max_items)

get_market_news(web, max_items) == UniqueByLink(NewsItems(web), {}, <<>>, max_items)

\* "for it in items: h = it["headline"]; if h in seen: continue; seen.add(h);
\* headlines.append(h); if len(headlines) >= limit: break"
RECURSIVE UniqueHeadlines(_, _, _, _)
UniqueHeadlines(items, seen, headlines, limit) ==
    IF items = <<>> THEN headlines
    ELSE LET h == Head(items).headline
         IN  IF h \in seen
             THEN UniqueHeadlines(Tail(items), seen, headlines, limit)
             ELSE LET hs == Append(headlines, h)
                  IN  IF Len(hs) >= limit THEN hs
                      ELSE UniqueHeadlines(Tail(items), seen \cup {h}, hs, limit)

collect_headlines(web, limit) ==
    UniqueHeadlines(get_market_news(web, HEADLINE_POOL), {}, <<>>, limit)

InitNews ==
    /\ seen_urls = load_seen(AbsentFile).urls
    /\ seen_queue = load_seen(AbsentFile).queue
    /\ seen_file = AbsentFile
    /\ tick = NoTick
    /\ watched = NoWatch
    /\ HOLIDAYS = {}
    /\ HOLIDAYS_LAST_REFRESH = None
    /\ last = NoJob
    /\ boot = Booted
    /\ sched = NoSched
    /\ day = NoDay
    /\ clock = 0
    /\ observe = NoLink
    /\ win = NoWin
    /\ blips = DefaultBlips
    /\ call \in {[fn |-> f, in |-> [web |-> w, limit |-> n], out |-> <<>>,
                  done |-> FALSE] :
                 f \in {"get_market_news", "_collect_headlines"},
                 w \in NewsWebs, n \in NewsLimits}

CallMarketNews ==
    /\ call.fn = "get_market_news" /\ ~call.done
    /\ call' = [call EXCEPT !.done = TRUE,
                 !.out = get_market_news(call.in.web, call.in.limit)]
    /\ UNCHANGED <<clock, PollStep>>

CallHeadlines ==
    /\ call.fn = "_collect_headlines" /\ ~call.done
    /\ call' = [call EXCEPT !.done = TRUE,
                 !.out = collect_headlines(call.in.web, call.in.limit)]
    /\ UNCHANGED <<clock, PollStep>>

NextNews == CallMarketNews \/ CallHeadlines

SpecNews == InitNews /\ [][NextNews]_vars

\* The news job as its cron trigger fires it.  schedule_jobs gives the
\* trigger the hours "sh-eh" (or "sh-23,0-eh" when the window crosses
\* midnight) and minute 30; the job reads the clock at the trigger instant or
\* later within that minute.
NEWS_CRON_MINUTE == 30

CronHours(start_str, end_str) ==
    LET sh == parse_hhmm(start_str).h
        eh == parse_hhmm(end_str).h
    IN  IF sh <= eh THEN sh..eh ELSE (sh..23) \cup (0..eh)

\* Seconds from the trigger instant to the job's reading of the clock; the
\* clock of the model counts seconds, and one second stands for every
\* positive delay (datetime.time() compares microseconds too).
StartDelays == {0, 1, 59}

CronWindows ==
    {DefaultBlips, NightBlips,
     [start |-> <<8, 45>>, end |-> <<21, 15>>],
     [start |-> <<8, 0>>, end |-> <<21, 45>>]}

InitCron ==
    /\ Startup(AbsentFile)
    /\ observe = NoLink
    /\ win = NoWin
    /\ blips \in CronWindows
    /\ clock \in {h * HOUR_SEC + NEWS_CRON_MINUTE * MIN_SEC + d :
                     h \in CronHours(MARKET_BLIPS_START, MARKET_BLIPS_END),
                     d \in StartDelays}

NextCron == post_news_slot(JobLinks)

SpecCron == InitCron /\ [][NextCron]_vars

\* The news job triggered again and again on one day, the items it delivers
\* that day counted.
InitDay ==
    /\ Startup(AbsentFile)
    /\ clock \in StartClocks
    /\ observe = DayObs
    /\ win = NoWin
    /\ blips \in {DefaultBlips, NightBlips}

NextDay == post_news_slot(Links)

SpecDay == InitDay /\ [][NextDay]_vars

\* All five jobs as the scheduler fires them over the days, from a fresh
\* deployment, while the sources carry JobLinks.
InitJobs ==
    /\ Startup(AbsentFile)
    /\ clock = 0
    /\ observe = LastObs
    /\ win = NoWin
    /\ blips = DefaultBlips

NextJobs ==
    \/ post_news_slot(JobLinks)
    \/ post_pre_market
    \/ post_ipo_snapshot
    \/ post_post_market
    \/ post_fii_dii
    \/ AdvanceClock
    \/ Restart

SpecJobs == InitJobs /\ [][NextJobs]_vars

\* within_window on its own: configured bounds and clock readings.
WindowMarks == {<<0, 0>>, <<7, 30>>, <<21, 30>>, <<23, 59>>}
WindowNows ==
    {d * DAY_SEC + m[1] * HOUR_SEC + m[2] * MIN_SEC + k :
        d \in {0, 1}, m \in WindowMarks, k \in {0, 1, 59}}

InitWindow ==
    /\ Startup(AbsentFile)
    /\ clock = 0
    /\ observe = NoLink
    /\ blips = DefaultBlips
    /\ win \in {[start |-> a, end |-> b, now |-> n, padded |-> p, result |-> "none"] :
                  a \in WindowMarks, b \in WindowMarks, n \in WindowNows, p \in BOOLEAN}

CheckWindow ==
    /\ win.result = "none"
    /\ win' = [win EXCEPT !.result =
                 IF within_window(FormatHHMM(win.start, win.padded),
                                  FormatHHMM(win.end, win.padded), win.now)
                 THEN "in" ELSE "out"]
    /\ UNCHANGED <<ledger, clock, history, holidays, last, blips, extra>>

NextWindow == CheckWindow

SpecWindow == InitWindow /\ [][NextWindow]_vars

\* The pure functions on their own, each applied once to an input.
DownSets == {d \in SUBSET Range(AllFeeds) : Cardinality(d) <= MaxDown}
CollectInputs ==
    {[down |-> d, carrier |-> c, seen |-> sn] :
        d \in DownSets, c \in [JobLinks -> Range(AllFeeds)], sn \in SUBSET JobLinks}
SummaryLimits == 1..(MaxTextLen - 1)
CallInputs ==
    {[fn |-> "collect_news_batch", in |-> x, out |-> <<>>, done |-> FALSE] :
        x \in CollectInputs}
    \cup {[fn |-> f, in |-> r, out |-> <<>>, done |-> FALSE] :
            f \in SpecialFetchers, r \in SourceReplies}
    \cup {[fn |-> "summarize", in |-> [text |-> t, limit |-> n], out |-> <<>>,
           done |-> FALSE] :
            t \in BoundedSeq(Chars, MaxTextLen), n \in SummaryLimits}

InitCalls ==
    /\ \E file \in {AbsentFile} :
         /\ seen_urls = load_seen(file).urls
         /\ seen_queue = load_seen(file).queue
         /\ seen_file = file
    /\ clock = 0
    /\ observe = NoLink
    /\ tick = NoTick
    /\ watched = NoWatch
    /\ HOLIDAYS = {}
    /\ HOLIDAYS_LAST_REFRESH = None
    /\ last = NoJob
    /\ win = NoWin
    /\ blips = DefaultBlips
    /\ boot = Booted
    /\ sched = NoSched
    /\ day = NoDay
    /\ call \in CallInputs

CallStep == <<ledger, clock, history, holidays, last, win, blips, boot, sched, day>>

CallCollect ==
    /\ call.fn = "collect_news_batch" /\ ~call.done
    /\ call' = [call EXCEPT !.done = TRUE,
                 !.out = CollectIn(World(call.in.down, call.in.carrier), 1, <<>>,
                                   0, call.in.seen, MAX_NEWS_PER_SLOT)]
    /\ UNCHANGED CallStep

CallSpecialFetch ==
    /\ call.fn \in SpecialFetchers /\ ~call.done
    /\ call' = [call EXCEPT !.done = TRUE, !.out = special_fetch(call.fn, call.in)]
    /\ UNCHANGED CallStep

CallSummarize ==
    /\ call.fn = "summarize" /\ ~call.done
    /\ call' = [call EXCEPT !.done = TRUE,
                             !.out = summarize(call.in.text, call.in.limit)]
    /\ UNCHANGED CallStep

NextCalls ==
    \/ CallCollect
    \/ CallSpecialFetch
    \/ CallSummarize

SpecCalls == InitCalls /\ [][NextCalls]_vars

\* Module initialisation, statement by statement, in the order of the file:
\* the validation, load_seen(), schedule_jobs(), sched.start(), the announce
\* thread.  The environment and the seen file are whatever the deployment
\* left, also a file no process of this program wrote.
StartFiles ==
    {AbsentFile, CorruptFile} \cup
    UNION {{GoodFile(a), MixedFile(a)} : a \in BoundedSeq(Links, SEEN_MAXLEN + 1)}

InitStart ==
    /\ seen_urls = {}
    /\ seen_queue = <<>>
    /\ seen_file \in StartFiles
    /\ boot \in {Importing(e) : e \in Environs}
    /\ clock = 0
    /\ observe = NoLink
    /\ tick = NoTick
    /\ watched = NoWatch
    /\ HOLIDAYS = {}
    /\ HOLIDAYS_LAST_REFRESH = None
    /\ last = NoJob
    /\ win = NoWin
    /\ blips = DefaultBlips
    /\ call = NoCall
    /\ sched = NoSched
    /\ day = NoDay

BootStep == <<clock, history, holidays, last, win, blips, call, sched, day>>

\* "if not BOT_TOKEN: raise RuntimeError(...)", the same for CHANNEL_ID
ValidateEnv ==
    /\ boot.phase = "import"
    /\ boot' = [boot EXCEPT !.phase =
                  IF Validate(BOT_TOKEN, CHANNEL_ID) = "raise"
                  THEN "failed" ELSE "validated"]
    /\ UNCHANGED <<ledger, BootStep>>

\* "load_seen()" at module level
LoadSeen ==
    /\ boot.phase = "validated"
    /\ \E r \in {load_seen(seen_file)} :
         /\ seen_urls' = r.urls
         /\ seen_queue' = r.queue
         /\ boot' = IF r.raised THEN [boot EXCEPT !.phase = "failed"]
                    ELSE [boot EXCEPT !.phase = "loaded", !.loaded = TRUE]
    /\ UNCHANGED <<seen_file, BootStep>>

\* "schedule_jobs()": five add_job calls
ScheduleJobs ==
    /\ boot.phase = "loaded"
    /\ boot' = [boot EXCEPT !.phase = "scheduled", !.jobs = JobIds]
    /\ UNCHANGED <<ledger, BootStep>>

\* "sched.start()"
StartScheduler ==
    /\ boot.phase = "scheduled"
    /\ boot' = [boot EXCEPT !.phase = "started", !.started = TRUE]
    /\ UNCHANGED <<ledger, BootStep>>

\* announce_startup on its thread: one send_text, whatever comes of it
AnnounceStartup ==
    /\ boot.phase = "started"
    /\ \E out \in SendOutcomes :
         boot' = [boot EXCEPT !.phase = "running",
                              !.announced = send_text(out).attempts]
    /\ UNCHANGED <<ledger, BootStep>>

NextStart ==
    \/ ValidateEnv
    \/ LoadSeen
    \/ ScheduleJobs
    \/ StartScheduler
    \/ AnnounceStartup

SpecStart == InitStart /\ [][NextStart]_vars

\* The jobs as executions on the pool's threads, their steps interleaved,
\* with the announce thread, in one process on a trading day inside the
\* posting window, the holidays having been refreshed.
InitSched ==
    /\ \E file \in {AbsentFile} :
         /\ seen_urls = load_seen(file).urls
         /\ seen_queue = load_seen(file).queue
         /\ seen_file = file
    /\ clock = CLOCK_STEP
    /\ observe = NoLink
    /\ tick = NoTick
    /\ watched = NoWatch
    /\ HOLIDAYS = {IsoHoliday}
    /\ HOLIDAYS_LAST_REFRESH = At(utcnow)
    /\ last = NoJob
    /\ win = NoWin
    /\ blips = DefaultBlips
    /\ boot = [Booted EXCEPT !.phase = "started", !.announced = 0]
    /\ call = NoCall
    /\ day = NoDay
    /\ sched \in {[NoSched EXCEPT !.watch = j] : j \in JobIds}

NextSched ==
    \/ \E j \in JobIds : Trigger(j)
    \/ \E e \in Executing : NewsStart(e)
    \/ \E e \in Executing : NewsPost(e)
    \/ \E e \in Executing : NewsRecord(e)
    \/ \E e \in Executing : NewsSave(e)
    \/ \E e \in Executing : FixedRun(e)
    \/ AnnounceStartup

SpecSched == InitSched /\ [][NextSched]_vars

\* The same with the pool's threads running: an execution that can take a
\* step takes it in the end; the announce thread too.  Nothing obliges a
\* trigger to fire, nor a feed's host to answer.
ExecStep(j) ==
    \E e \in Executing :
        /\ e.job = j
        /\ NewsStart(e) \/ NewsPost(e) \/ NewsRecord(e) \/ NewsSave(e) \/ FixedRun(e)

SpecSchedFair ==
    /\ SpecSched
    /\ \A j \in JobIds : WF_vars(ExecStep(j))
    /\ WF_vars(AnnounceStartup)

(* --------------------- properties: the news job ------------------------ *)
SentLinks == [i \in 1..Len(tick.sends) |-> tick.sends[i].link]

\* The local time of day is outside the configured posting window.
OutsideBlips ==
    LET t == clock % DAY_SEC
        start == blips.start[1] * HOUR_SEC + blips.start[2] * MIN_SEC
        end == blips.end[1] * HOUR_SEC + blips.end[2] * MIN_SEC
    IN  IF start <= end THEN t < start \/ t > end
        ELSE t < start /\ t > end

\* C1: a link whose first send in this process succeeded is not sent again
\* in this process, whatever the feeds return in later executions.
C1_NoSecondDelivery ==
    observe \in Links => ~(watched.first = "ok" /\ watched.resent)

\* C1 witness: the link was delivered and a later execution of this process
\* went through collection and posting without sending it.
C1_Witness ==
    observe \in Links /\ watched.first = "ok" /\ watched.later /\ ~watched.resent

\* C2: a link whose send failed in the last execution is neither in
\* seen_urls nor in seen_queue nor in the persisted file.
C2_FailedSendNotRecorded ==
    \A i \in 1..Len(tick.sends) :
        ~tick.sends[i].ok =>
            /\ tick.sends[i].link \notin seen_urls
            /\ tick.sends[i].link \notin Range(seen_queue)
            /\ tick.sends[i].link \notin Range(seen_file.arr)

\* C3: the membership test is true for at most SEEN_MAXLEN ids.
C3_LedgerBounded == Cardinality(seen_urls) <= SEEN_MAXLEN

\* C5: an execution of post_news_slot outside the posting window leaves
\* seen_urls, seen_queue and the seen file unchanged, fetches no feed and
\* sends nothing.
C5_SkipOutsideWindow ==
    [][(OutsideBlips /\ post_news_slot(Links)) =>
          /\ UNCHANGED ledger
          /\ observe = NoLink => (tick'.fetches = 0 /\ tick'.sends = <<>>)]_vars

\* C5 witness: with a window that wraps midnight, an execution was skipped at
\* the gate with a non-empty ledger.
C5_Witness ==
    tick.gate = "skipped" /\ OutsideBlips /\ blips = NightBlips /\ seen_urls # {}

\* C8: each link sent in the last execution was sent once in it, and is
\* once in seen_queue and in seen_urls, however many feeds returned it.
C8_OncePerTick ==
    \A i \in 1..Len(SentLinks) :
        /\ Count(SentLinks, SentLinks[i]) = 1
        /\ Count(seen_queue, SentLinks[i]) = 1
        /\ SentLinks[i] \in seen_urls

\* C8 witness: the batch of the last execution held a link twice (two groups
\* returned it) and the execution sent.
C8_Witness == tick.dup /\ Len(tick.sends) >= 1

\* C9: a send that met a rate-limit error made two transport attempts, a
\* send that met another error made one, and no send made more than two.
C9_RetryOnRateLimit ==
    \A i \in 1..Len(tick.sends) :
        /\ tick.sends[i].first = "rate_limit" => tick.sends[i].attempts = 2
        /\ tick.sends[i].first = "error" => tick.sends[i].attempts = 1
        /\ tick.sends[i].attempts <= 2

\* C10 as stated: a link whose send failed is never handed to send_text by
\* a later execution.
C10_NeverRetried == observe \in Links => ~watched.everResent

\* C10 amended: a link whose send failed is not handed to send_text again
\* by a later execution of the same process.
C10_NotRetriedInProcess ==
    observe \in Links => ~(watched.first = "failed" /\ watched.resent)

\* C10 witness: the send of the link failed and a later execution of this
\* process went through collection and posting without sending it.
C10_Witness ==
    observe \in Links /\ watched.first = "failed" /\ watched.later /\ ~watched.resent

(* ------------------- properties: the time-window gate ----------------- *)
\* C4: for bounds given as HH:MM strings and a clock reading with seconds,
\* within_window answers true exactly when the time of day t satisfies
\* start <= t <= end (start <= end), or t >= start or t <= end (start > end).
C4_WithinWindow ==
    win.result # "none" =>
        LET start == win.start[1] * 3600 + win.start[2] * 60
            end == win.end[1] * 3600 + win.end[2] * 60
            t == win.now % 86400
        IN  (win.result = "in") <=>
                IF start <= end THEN start <= t /\ t <= end
                ELSE t >= start \/ t <= end

\* C4 witness: a window that wraps midnight, asked at its end bound to the
\* second, answered true.
C4_Witness ==
    /\ win.result = "in"
    /\ win.start = <<21, 30>> /\ win.end = <<7, 30>>
    /\ win.now % 86400 = 7 * 3600 + 30 * 60

(* ------------------- properties: the trading-day gate ----------------- *)
FixedJobs == {"pre_market", "ipo", "post_market", "fii_dii"}

\* Today is a Saturday or a Sunday.
Weekend == (Epoch.weekday + clock \div DAY_SEC) % 7 \in {5, 6}

\* Today's date is in the holiday set as it stands.
Holiday == strftime_ymd(clock) \in HOLIDAYS

\* C6: a fixed job run on a Saturday, a Sunday or a day in the holiday set
\* made no polling attempt, no data fetch and no send; a news job run inside
\* the posting window fetched feeds whatever the day.
C6_FixedJobsGated ==
    /\ (last.name \in FixedJobs /\ (Weekend \/ Holiday)) =>
          (last.attempts = 0 /\ last.fetches = 0 /\ last.sends = 0)
    /\ (last.name = "news" /\ ~OutsideBlips) => last.fetches > 0

\* C6 witness: the flows job was fired on a Saturday and did nothing.
C6_Witness ==
    last.name = "fii_dii" /\ Weekend /\ last.attempts = 0 /\ last.sends = 0

\* C7: the answer is_trading_day gave the job just run is true exactly when
\* today is Monday to Friday and its date is not in the holiday set; on a
\* Saturday or Sunday it was given without a holiday refresh or request.
C7_TradingDay ==
    last.name \in FixedJobs =>
        /\ last.trading <=> (~Weekend /\ ~Holiday)
        /\ Weekend => (~last.refreshed /\ last.gets = 0)

\* C7 witness: on a weekday, is_trading_day refreshed the holiday set, found
\* the date in it and answered false.
C7_Witness ==
    last.name \in FixedJobs /\ ~Weekend /\ Holiday /\ last.refreshed /\ ~last.trading

(* ----------------------- properties: the ledger ------------------------ *)
\* C11: recording an id that the ledger already holds changes nothing: no id
\* occupies more than one entry of seen_queue, also when the ids were loaded
\* from a seen file that lists an id more than once.
C11_RecordIdempotent ==
    boot.loaded =>
        /\ \A i, j \in 1..Len(seen_queue) : i # j => seen_queue[i] # seen_queue[j]
        /\ \A l \in Range(seen_queue) : l \in seen_urls

\* C12: a restart after a successful save_seen gives back the ledger: the
\* same ids in the same order in seen_queue, and the same answer of the
\* membership test for every id, whatever the state before the restart.
C12_RoundTrip ==
    [][(seen_file = GoodFile(seen_queue) /\ Restart) =>
          /\ seen_queue' = seen_queue
          /\ \A l \in Links : (l \in seen_urls') <=> (l \in seen_urls)]_vars

\* The last k links the execution sent are the last k entries of seen_queue.
QueueEndsWith(sends) ==
    LET n == Len(sends)
        k == Min(n, SEEN_MAXLEN)
    IN  /\ Len(seen_queue) >= k
        /\ \A i \in 1..k :
              seen_queue[Len(seen_queue) - k + i] = sends[n - k + i].link

\* C13: failures of the ledger's persistence are never fatal.  The process
\* keeps running; a start from a seen file that cannot be read or parsed
\* begins with the empty ledger; an execution whose save_seen failed has
\* completed with every link it sent in seen_urls and at the end of
\* seen_queue, and a link sent by this process stays in seen_urls, where
\* later executions look it up.
C13_PersistenceNeverFatal ==
    /\ Running
    /\ (observe = NoLink /\ tick.gate = "none"
          /\ seen_file.state \in {"absent", "corrupt"})
         => (seen_urls = {} /\ seen_queue = <<>>)
    /\ (observe = NoLink /\ tick.saved \in {"open_failed", "write_failed"})
         => /\ tick.gate = "passed"
            /\ \A i \in 1..Len(tick.sends) : tick.sends[i].link \in seen_urls
            /\ QueueEndsWith(tick.sends)
    /\ (observe \in Links /\ watched.first # "none") => observe \in seen_urls

C13_Witness ==
    /\ observe = NoLink
    /\ tick.saved = "write_failed"
    /\ Len(tick.sends) = MAX_NEWS_PER_SLOT
    /\ seen_file.state = "corrupt"
    /\ seen_queue # <<>>

(* ----------------------- properties: the sources ----------------------- *)
BatchLinks(o) == {o.batch[i].link : i \in 1..Len(o.batch)}

\* The feed fetches collect_news_batch makes when it returns after 1, 2, 3
\* or 4 groups, or after the top-up pass.
FetchCounts ==
    {SeqSum([i \in 1..k |-> Len(FEEDS[GROUPS[i]])]) : k \in 1..Len(GROUPS)}
    \cup {2 * Len(AllFeeds)}

\* C14: a source fetch never raises.  With feedparser raising for some feeds,
\* collect_news_batch returns, has fetched every feed of every group it
\* visited, and returns every unseen link that a working feed carries (the
\* links are no more than max_items); a special fetcher whose request fails
\* returns its empty result.
C14_FetchNeverRaises ==
    /\ (call.fn = "collect_news_batch" /\ call.done) =>
          /\ call.out.fetches \in FetchCounts
          /\ BatchLinks(call.out) =
                {l \in JobLinks : /\ call.in.carrier[l] \notin call.in.down
                                  /\ l \notin call.in.seen}
    /\ (call.fn \in SpecialFetchers /\ call.done) =>
          /\ ~call.out.raised
          /\ call.in # "data" => call.out.value \in {"[]", "None"}

C14_Witness ==
    /\ call.fn = "collect_news_batch" /\ call.done
    /\ call.in.down = {1, 4}
    /\ call.in.carrier[1] = 2
    /\ BatchLinks(call.out) = {1}

(* ------------------------ properties: startup -------------------------- *)
MissingRequired == Falsy(BOT_TOKEN) \/ Falsy(CHANNEL_ID)

\* C20: with BOT_TOKEN or CHANNEL_ID unset or empty, module initialisation
\* fails before the ledger is loaded, before any job is registered or the
\* scheduler started, and before any message is sent.
C20_FailsBeforeSideEffects ==
    MissingRequired =>
        /\ boot.phase \in {"import", "failed"}
        /\ ~boot.loaded /\ seen_urls = {} /\ seen_queue = <<>>
        /\ boot.jobs = {} /\ ~boot.started /\ boot.announced = 0

C20_Witness ==
    /\ boot.phase = "failed"
    /\ boot.environ = [n \in EnvNames |-> IF n = "BOT_TOKEN" THEN "x" ELSE ""]
    /\ seen_file.state = "ok" /\ seen_file.arr # <<>>

(* ----------------------- properties: the scheduler --------------------- *)
\* C15: no two executions of one job run at the same time.  A trigger that
\* fires while the job's execution is running starts nothing and leaves the
\* running execution as it is; a trigger that fires when the job is idle
\* (and a pool thread is free) starts it, also after a skipped trigger.
C15_NoOverlap ==
    [][\A j \in JobIds :
          /\ Instances(j)' <= 1
          /\ (Instances(j) = 1 /\ Trigger(j)) => sched'.execs = sched.execs
          /\ (Instances(j) = 0 /\ BagCardinality(sched.execs) < MaxThreads
                /\ Trigger(j)) => Instances(j)' = 1]_vars

C15_Witness ==
    /\ sched.watch = "post_news_slot"
    /\ sched.skip = "resumed"
    /\ \E e \in Executing : e.job = "post_news_slot" /\ e.pc = "record"

\* C16: whatever the interleaving of the executions' steps, of the announce
\* thread and of the triggers, no link is delivered twice as a news item and
\* no record is lost: every link an execution recorded is in seen_urls and
\* in seen_queue (the links are no more than the queue holds).
C16_CheckThenRecord ==
    /\ \A l \in JobLinks : sched.sent[l] <= 1
    /\ sched.recorded \subseteq seen_urls
    /\ sched.recorded \subseteq Range(seen_queue)
    /\ \A e \in Executing :
          (e.job = "post_news_slot" /\ e.pc = "save" /\ e.posted > 0)
              => seen_queue # <<>>

C16_Witness ==
    /\ boot.phase = "started"
    /\ \E e \in Executing : e.job = "pre_market" /\ e.pc = "start"
    /\ \E e \in Executing : e.job = "post_news_slot" /\ e.pc = "record"
    /\ \E l \in JobLinks : sched.sent[l] = 1
    /\ sched.skip = "skipped"

\* C17: every execution the scheduler starts finishes in the end, and its
\* job is idle again, whatever the remote hosts do.
C17_ExecutionsFinish ==
    \A j \in JobIds : (Instances(j) > 0) ~> (Instances(j) = 0)

(* ------------------------ properties: daily cap ------------------------ *)
\* The program configures no per-day number of items; the only item cap it
\* reads is MAX_NEWS_PER_SLOT, taken here as the day's cap.  Whatever number
\* stands for the cap, fresh links in later executions exceed it.
DAILY_CAP == MAX_NEWS_PER_SLOT

\* C18: the news items delivered on one local day never exceed the per-day
\* cap, however often post_news_slot is triggered, and none is delivered
\* outside the posting window.
C18_DailyCap ==
    /\ day.items <= DAILY_CAP
    /\ OutsideBlips => day.items = 0

(* ------------------------ properties: summaries ------------------------ *)
Summarized == call.fn = "summarize" /\ call.done
Cleaned == clean_text(call.in.text)

\* The positions (from 1) of the first n characters of t that hold a mark,
\* and those of them, after the first character, followed by a space
\* within the n characters.
MarksIn(t, n) == {p \in 1..n : t[p] \in Marks}
BoundariesIn(t, n) == {p \in 2..(n - 1) : t[p] \in Marks /\ t[p + 1] = " "}
Last(S) == CHOOSE p \in S : \A q \in S : q <= p

\* C19 as stated: a text whose cleaned length exceeds the cap gives at most
\* cap + 1 characters; if a mark is among the first cap characters the result
\* ends at the last such mark, otherwise it is the first cap characters and
\* the ellipsis; a text within the cap is returned as cleaned.
C19_CutAtLastMark ==
    Summarized =>
        LET t == Cleaned
            n == call.in.limit
        IN  IF Len(t) <= n THEN call.out = t
            ELSE /\ Len(call.out) <= n + Len(ELLIPSIS)
                 /\ call.out = IF MarksIn(t, n) # {} THEN Take(t, Last(MarksIn(t, n)))
                                ELSE Take(t, n) \o ELLIPSIS

\* C19 amended: the cut is made at the last mark that is followed by a space
\* within the first cap characters and is not the first character; without
\* one, the result is the first cap characters less trailing spaces, and the
\* ellipsis.
C19_CutAtLastBoundary ==
    Summarized =>
        LET t == Cleaned
            n == call.in.limit
        IN  IF Len(t) <= n THEN call.out = t
            ELSE /\ Len(call.out) <= n + Len(ELLIPSIS)
                 /\ call.out = IF BoundariesIn(t, n) # {}
                                THEN Take(t, Last(BoundariesIn(t, n)))
                                ELSE RStrip(Take(t, n)) \o ELLIPSIS

C19_Witness ==
    /\ Summarized
    /\ call.in.text = <<"a", ".", "a", "a", "a">>
    /\ call.in.limit = 4
    /\ call.out = <<"a", ".", "a", "a", "...">>

(* ---------------------- properties: the news schedule ------------------ *)
\* The instant of the trigger that started the execution reading this clock.
TriggerInstant == clock - (clock % MIN_SEC)

\* The trigger instant lies between MARKET_BLIPS_START and MARKET_BLIPS_END
\* inclusive.
TriggerInBlips ==
    LET t == TriggerInstant % DAY_SEC
        start == blips.start[1] * HOUR_SEC + blips.start[2] * MIN_SEC
        end == blips.end[1] * HOUR_SEC + blips.end[2] * MIN_SEC
    IN  IF start <= end THEN start <= t /\ t <= end
        ELSE t >= start \/ t <= end

\* C21: every execution that a cron trigger inside the window started passes
\* the job's own gate and goes on to collect news, the runs at the first and
\* at the last hh:30 of the window included.
C21_ScheduleAgreesWithGate ==
    (tick.gate # "none" /\ TriggerInBlips) => tick.gate = "passed"

(* ---------------------- properties: polling helper --------------------- *)
Polled == call.fn = "attempt_with_polling" /\ call.done

\* floor(window * 60 / interval) + 1
PollBound ==
    (call.in.window_minutes * MIN_SEC) \div call.in.interval_seconds + 1

\* A returned call made no more attempts than the bound, returned the first
\* truthy result without a further attempt, and returned None only after the
\* deadline, every attempt having failed.
PollResult ==
    Polled =>
        /\ call.out.attempt <= PollBound
        /\ call.out.res = "data" => call.out.failed = call.out.attempt - 1
        /\ call.out.res = "none" =>
             /\ call.out.failed = call.out.attempt
             /\ now_local > call.out.deadline

\* Every call of attempt_with_polling returns.
PollTerminates == <>(call.done)

\* C22: a call of attempt_with_polling makes at least one attempt, returns
\* the first truthy result at once or None after the deadline, and makes at
\* most floor(window * 60 / interval) + 1 attempts.
C22_PollingContract ==
    /\ Polled => call.out.attempt >= 1
    /\ PollResult

(* ------------------ properties: the batch and the ledger --------------- *)
\* C23: whatever the feeds return, collect_news_batch(MAX_NEWS_PER_SLOT) gives
\* at most MAX_NEWS_PER_SLOT items and none whose link is in seen_urls, and
\* an execution of post_news_slot sends at most MAX_NEWS_PER_SLOT messages
\* and adds at most MAX_NEWS_PER_SLOT ids to seen_urls and to seen_queue: no
\* step that breaks one of these bounds is a step of post_news_slot.
SlotBounded ==
    /\ \A c \in NewsBatches[Links][seen_urls] :
          /\ Len(c.batch) <= MAX_NEWS_PER_SLOT
          /\ \A i \in 1..Len(c.batch) : c.batch[i].link \notin seen_urls
    /\ observe = NoLink => Len(tick'.sends) <= MAX_NEWS_PER_SLOT
    /\ Cardinality(seen_urls' \ seen_urls) <= MAX_NEWS_PER_SLOT
    /\ Cardinality(Range(seen_queue') \ Range(seen_queue)) <= MAX_NEWS_PER_SLOT

C23_SlotBounded == [][~SlotBounded => ~post_news_slot(Links)]_vars

\* C23 witness: an execution that began with a non-empty ledger sent
\* MAX_NEWS_PER_SLOT messages.
C23_Witness ==
    /\ tick.gate = "passed"
    /\ Len(tick.sends) = MAX_NEWS_PER_SLOT
    /\ Cardinality(seen_urls) > MAX_NEWS_PER_SLOT

\* C24: every id held in seen_queue, which save_seen writes, is in seen_urls,
\* which the membership test reads: after load_seen, after every execution
\* of post_news_slot and after every eviction from seen_queue.
C24_QueueWithinSet == Range(seen_queue) \subseteq seen_urls

\* C24 witness: seen_queue is full and has evicted an id that seen_urls still
\* holds, after an execution that recorded an id.
C24_Witness ==
    /\ Len(seen_queue) = SEEN_MAXLEN
    /\ seen_urls \ Range(seen_queue) # {}
    /\ \E i \in 1..Len(tick.sends) : tick.sends[i].link \in Range(seen_queue)

\* A step of a fixed job, of announce_startup or of collect_news_batch.
OutsideNewsPosting ==
    \/ post_pre_market
    \/ post_ipo_snapshot
    \/ post_post_market
    \/ post_fii_dii
    \/ AnnounceStartup
    \/ CallCollect

\* C25: no step that changes seen_urls, seen_queue or the seen file is a step
\* of post_pre_market, post_ipo_snapshot, post_post_market, post_fii_dii,
\* announce_startup or collect_news_batch.
C25_LedgerFrame == [][ledger' # ledger => ~OutsideNewsPosting]_vars

\* C25 witness: post_pre_market posted a brief with a headline that
\* collect_news_batch returned, and the ledger holds nothing.
C25_Witness ==
    /\ last.name = "pre_market"
    /\ last.headlines >= 1
    /\ last.sends >= 1
    /\ seen_urls = {} /\ seen_queue = <<>> /\ seen_file = AbsentFile

(* ------------------- properties: holiday knowledge --------------------- *)
\* C26: a fixed job that runs on a date the holiday set holds finds
\* is_trading_day false, whatever the holiday sources answer to a refresh the
\* call makes; and the call refreshes only if no refresh was attempted in the
\* 24 hours before it.
C26_HolidaysMonotone ==
    [][last'.name \in FixedJobs =>
          /\ strftime_ymd(now_local) \in HOLIDAYS => ~last'.trading
          /\ last'.refreshed => RefreshDue(HOLIDAYS_LAST_REFRESH, utcnow)]_vars

(* ---------------------- properties: fetch_news.py ---------------------- *)
MarketNews == call.fn = "get_market_news" /\ call.done
Headlines == call.fn = "_collect_headlines" /\ call.done

\* The positions of s whose key did not occur at an earlier position.
FirstAt(s, key(_)) == {i \in 1..Len(s) : \A j \in 1..(i - 1) : key(s[j]) # key(s[i])}

\* s is the sequence of the first n first occurrences of t, in t's order.
IsFirsts(s, t, key(_)) ==
    \E n \in 0..Len(t) :
        LET firsts == SelectSeq([i \in 1..Len(t) |-> i], LAMBDA i : i \in FirstAt(t, key))
        IN  /\ n <= Len(firsts)
            /\ s = [k \in 1..n |-> t[firsts[k]]]

LinkOf(it) == it.link
Same(h) == h
HeadlineOf(it) == it.headline
HeadlinesOf(items) == [i \in 1..Len(items) |-> items[i].headline]

\* The web with every failing feed replaced by a feed without entries.
WithoutDown(web) == [i \in DOMAIN web |-> IF web[i].ok THEN web[i] ELSE FeedOk(<<>>)]

\* get_market_news gives items with distinct links, each the first occurrence
\* of its link, in feed order, and the same items as if the failing feeds
\* carried nothing; _collect_headlines gives distinct headlines in that order.
NewsOrdered ==
    /\ MarketNews =>
         /\ IsFirsts(call.out, NewsItems(call.in.web), LinkOf)
         /\ call.out = get_market_news(WithoutDown(call.in.web), call.in.limit)
    /\ Headlines =>
         IsFirsts(call.out,
                  HeadlinesOf(get_market_news(call.in.web, HEADLINE_POOL)), Same)

\* At most max_items items, at most limit headlines.
NewsBounded == (MarketNews \/ Headlines) => Len(call.out) <= call.in.limit

====
